---- MODULE Spec2Model ----
(***************************************************************************)
(* License admission and lifecycle of the Triboi AI widget.                *)
(*                                                                         *)
(* Client variant (src/server.js, the IIFE of lines 97-570): one license   *)
(* record in localStorage, the licenseJustExpired flag, the send-button     *)
(* interception and the two modals.                                        *)
(* Server variant (src/database.js and the routes of src/unnamed/part_001):*)
(* an in-memory map of license records addressed by code.                  *)
(*                                                                         *)
(* Strings are sequences of one-character strings.  Time is counted in     *)
(* ticks; one day (86400000 ms in the source) is TicksPerDay ticks.        *)
(***************************************************************************)
EXTENDS Integers, Sequences, FiniteSets, Bags, TLC

VARIABLES
  storage,             \* localStorage slot STORAGE_KEY
  licenseJustExpired,  \* the deferred-block flag
  now,                 \* Date.now(), in ticks
  pending,             \* scheduled, not yet run, consume callbacks (setTimeout 100)
  locked,              \* the send button is disabled (lockWidget / unlockWidget)
  modal,               \* modal in the document: "none", "license", "expired"
  licTimers,           \* scheduled follow-ups of the license modal (setTimeout 1200)
  expTimers,           \* a follow-up of the expired modal is scheduled (setTimeout
                       \* 1200); it reloads the page, which drops any other one
  event,               \* last handler run and what it returned or displayed
  denied,              \* history: a send click has been denied for a budget
                       \* reason on the stored license, which has been invalid
                       \* ever since
  renewed,             \* history: activateLicense has succeeded, and since then
                       \* no send click has been made and the slot has not been
                       \* emptied or overwritten from outside
  vinput,              \* validator harness: the candidate code
  vvariant,            \* validator harness: a rewritten form of the candidate
  vresult,             \* validator harness: validateCodePattern(vinput)
  vresult2,            \* validator harness: validateCodePattern(vvariant)
  licenses,            \* server: the Map of database.js
  requests,            \* server: requests in flight, suspended at an await
  useOk                \* server: success responses of POST /api/license/use for
                       \* the record now stored under NewCode

vars == <<storage, licenseJustExpired, now, pending, locked, modal, licTimers,
          expTimers, event, denied, renewed, vinput, vvariant, vresult, vresult2,
          licenses,
          requests, useOk>>

clientVars == <<storage, licenseJustExpired, now, pending, locked, modal,
                licTimers, expTimers, event, denied, renewed>>

validatorVars == <<vinput, vvariant, vresult, vresult2>>

serverVars == <<licenses, requests, useOk>>

----------------------------------------------------------------------------
(* Bounds *)

TicksPerDay == 2

MaxHorizonDays == 31

MaxPending == 2

MaxTimers == 1

MaxNow == MaxHorizonDays * TicksPerDay

\* Clock jumps: 29 days, 29 days and a fraction, 30 days.
Jumps == {29 * TicksPerDay, 29 * TicksPerDay + 1, 30 * TicksPerDay}

----------------------------------------------------------------------------
(* Characters and strings *)

\* UTF-16 code units of the characters used, as String.prototype.sort
\* compares them.
CharCode(c) ==
  CASE c = "\t" -> 9   [] c = " " -> 32
    [] c = "0" -> 48 [] c = "1" -> 49 [] c = "2" -> 50 [] c = "3" -> 51
    [] c = "4" -> 52 [] c = "5" -> 53 [] c = "6" -> 54 [] c = "7" -> 55
    [] c = "8" -> 56 [] c = "9" -> 57
    [] c = "B" -> 66 [] c = "I" -> 73 [] c = "J" -> 74 [] c = "L" -> 76
    [] c = "M" -> 77 [] c = "P" -> 80 [] c = "U" -> 85 [] c = "V" -> 86
    [] c = "X" -> 88
    [] c = "b" -> 98 [] c = "i" -> 105 [] c = "j" -> 106 [] c = "l" -> 108
    [] c = "m" -> 109 [] c = "p" -> 112 [] c = "u" -> 117 [] c = "v" -> 118
    [] c = "x" -> 120

IsSpace(c) == c \in {" ", "\t"}

UpperChar(c) ==
  CASE c = "b" -> "B" [] c = "i" -> "I" [] c = "j" -> "J" [] c = "l" -> "L"
    [] c = "m" -> "M" [] c = "p" -> "P" [] c = "u" -> "U" [] c = "v" -> "V"
    [] c = "x" -> "X" [] OTHER -> c

LowerChar(c) ==
  CASE c = "B" -> "b" [] c = "I" -> "i" [] c = "J" -> "j" [] c = "L" -> "l"
    [] c = "M" -> "m" [] c = "P" -> "p" [] c = "U" -> "u" [] c = "V" -> "v"
    [] c = "X" -> "x" [] OTHER -> c

RECURSIVE TrimStart(_)
TrimStart(s) ==
  IF s # <<>> /\ IsSpace(Head(s)) THEN TrimStart(Tail(s)) ELSE s

RECURSIVE TrimEnd(_)
TrimEnd(s) ==
  IF s # <<>> /\ IsSpace(s[Len(s)]) THEN TrimEnd(SubSeq(s, 1, Len(s) - 1)) ELSE s

\* String.prototype.trim
Trim(s) == TrimEnd(TrimStart(s))

\* Faulty variant: the input is not upper-cased
ToUpperCase_Identity(s) == s

\* String.prototype.toUpperCase
ToUpperCase(s) == [i \in 1..Len(s) |-> UpperChar(s[i])]

\* replace(/\s/g, '')
StripSpaces(s) == SelectSeq(s, LAMBDA c : ~IsSpace(c))

RECURSIVE InsertSorted(_, _)
InsertSorted(c, s) ==
  IF s = <<>> THEN <<c>>
  ELSE IF CharCode(c) <= CharCode(Head(s)) THEN <<c>> \o s
  ELSE <<Head(s)>> \o InsertSorted(c, Tail(s))

\* Faulty variant: the characters are compared in the order given
SortChars_NoSort(s) == s

RECURSIVE SortChars(_)
\* [...chars].sort().join('')
SortChars(s) ==
  IF s = <<>> THEN <<>> ELSE InsertSorted(Head(s), SortChars(Tail(s)))

----------------------------------------------------------------------------
(* CONFIG *)

LICENSE_CONFIG ==
  [BASIC |-> [prefix |-> "B",
              chars |-> <<"1", "9", "7", "4", "I", "U", "L">>,
              maxQuestions |-> 10, maxDays |-> 30, price |-> 20,
              name |-> "Basic"],
   PREMIUM |-> [prefix |-> "P",
                chars |-> <<"2", "0", "8", "5", "J", "V", "M">>,
                maxQuestions |-> 100, maxDays |-> 365, price |-> 100,
                name |-> "Premium"]]

Null == [isNull |-> TRUE]

----------------------------------------------------------------------------
(* VALIDATION *)

validateCodePattern(code) ==
  LET clean == StripSpaces(ToUpperCase(Trim(code)))
  IN IF Len(clean) # 8 THEN Null
     ELSE
       LET prefix == clean[1]
           body == SubSeq(clean, 2, Len(clean))
       IN IF prefix \notin {"B", "P"} THEN Null
          ELSE
            LET cfg == IF prefix = "B" THEN LICENSE_CONFIG.BASIC
                       ELSE LICENSE_CONFIG.PREMIUM
            IN IF Len(body) # 7 THEN Null
               ELSE IF SortChars(body) # SortChars(cfg.chars) THEN Null
               ELSE [type |-> IF prefix = "B" THEN "BASIC" ELSE "PREMIUM",
                     code |-> clean,
                     prefix |-> cfg.prefix,
                     chars |-> cfg.chars,
                     maxQuestions |-> cfg.maxQuestions,
                     maxDays |-> cfg.maxDays,
                     price |-> cfg.price,
                     name |-> cfg.name]

----------------------------------------------------------------------------
(* STORAGE *)

Absent == [kind |-> "absent"]

\* JSON.stringify of a license object, as kept under STORAGE_KEY
JSONstringify(data) == [kind |-> "json", text |-> data]

\* A stored text that is not JSON (written by something else than saveLicense)
Damaged == [kind |-> "text"]

\* The exception JSON.parse throws
SyntaxError == [thrown |-> "SyntaxError"]

\* JSON.parse of a stored text
JSONparse(item) == IF item.kind = "json" THEN item.text ELSE SyntaxError

\* Faulty variant: a text that does not parse yields an empty record
getLicense_EmptyRecord(st) ==
  IF st.kind = "absent" THEN Null
  ELSE LET data == JSONparse(st)
       IN IF data = SyntaxError
            THEN [code |-> <<>>, type |-> "BASIC", maxQuestions |-> 0,
                  maxDays |-> 0, activationDate |-> 0, questionsUsed |-> 0]
            ELSE data

\* getItem returns null for a missing key; the catch turns a throwing
\* JSON.parse into null
getLicense(st) ==
  IF st.kind = "absent" THEN Null
  ELSE LET data == JSONparse(st)
       IN IF data = SyntaxError THEN Null ELSE data

saveLicense(data) == JSONstringify(data)

clearLicense == Absent

----------------------------------------------------------------------------
(* LICENSE STATUS *)

Max(a, b) == IF a >= b THEN a ELSE b

\* Faulty variant: the day budget is looked at before the question budget
checkStatus_DaysFirst(st, t) ==
  LET license == getLicense(st)
  IN IF license = Null THEN [valid |-> FALSE, reason |-> "no_license"]
     ELSE
       LET elapsedDays == (t - license.activationDate) \div TicksPerDay
           daysRemaining == Max(0, license.maxDays - elapsedDays)
       IN IF daysRemaining <= 0
            THEN [valid |-> FALSE, reason |-> "expired"]
          ELSE IF license.questionsUsed >= license.maxQuestions
            THEN [valid |-> FALSE, reason |-> "questions_exceeded"]
          ELSE [valid |-> TRUE, reason |-> "none",
                questionsRemaining |->
                  license.maxQuestions - license.questionsUsed,
                daysRemaining |-> daysRemaining]

\* Faulty variant: a started day counts as an elapsed day (Math.ceil)
checkStatus_CeilDays(st, t) ==
  LET license == getLicense(st)
  IN IF license = Null THEN [valid |-> FALSE, reason |-> "no_license"]
     ELSE IF license.questionsUsed >= license.maxQuestions
       THEN [valid |-> FALSE, reason |-> "questions_exceeded"]
     ELSE
       LET elapsedDays ==
             (t - license.activationDate + TicksPerDay - 1) \div TicksPerDay
           daysRemaining == Max(0, license.maxDays - elapsedDays)
       IN IF daysRemaining <= 0
            THEN [valid |-> FALSE, reason |-> "expired"]
            ELSE [valid |-> TRUE, reason |-> "none",
                  questionsRemaining |->
                    license.maxQuestions - license.questionsUsed,
                  daysRemaining |-> daysRemaining]

checkStatus(st, t) ==
  LET license == getLicense(st)
  IN IF license = Null THEN [valid |-> FALSE, reason |-> "no_license"]
     ELSE IF license.questionsUsed >= license.maxQuestions
       THEN [valid |-> FALSE, reason |-> "questions_exceeded"]
     ELSE
       LET elapsedDays == (t - license.activationDate) \div TicksPerDay
           daysRemaining == Max(0, license.maxDays - elapsedDays)
       IN IF daysRemaining <= 0
            THEN [valid |-> FALSE, reason |-> "expired"]
            ELSE [valid |-> TRUE, reason |-> "none",
                  questionsRemaining |->
                    license.maxQuestions - license.questionsUsed,
                  daysRemaining |-> daysRemaining]

\* Faulty variant: the record is stamped with the epoch, not with Date.now()
NewLicense_EpochStamp(pack, t) ==
  [code |-> pack.code, type |-> pack.type,
   maxQuestions |-> pack.maxQuestions, maxDays |-> pack.maxDays,
   activationDate |-> 0, questionsUsed |-> 0]

\* The record activateLicense builds from an accepted code
NewLicense(pack, t) ==
  [code |-> pack.code, type |-> pack.type,
   maxQuestions |-> pack.maxQuestions, maxDays |-> pack.maxDays,
   activationDate |-> t, questionsUsed |-> 0]

\* Faulty variant: the incremented record is not saved
incrementQuestions_NoSave(st) == st

\* Faulty variant: the counter is counted down
incrementQuestions_Decrement(st) ==
  LET lic == getLicense(st)
  IN IF lic = Null THEN st
     ELSE saveLicense([lic EXCEPT !.questionsUsed = lic.questionsUsed - 1])

\* Faulty variant: the consume refreshes the budget from the tier table
incrementQuestions_RefreshesBudget(st) ==
  LET lic == getLicense(st)
  IN IF lic = Null THEN st
     ELSE saveLicense([lic EXCEPT !.questionsUsed = lic.questionsUsed + 1,
                                  !.maxDays = LICENSE_CONFIG.PREMIUM.maxDays])

\* The store after incrementQuestions()
incrementQuestions(st) ==
  LET lic == getLicense(st)
  IN IF lic = Null THEN st
     ELSE saveLicense([lic EXCEPT !.questionsUsed = lic.questionsUsed + 1])

\* Faulty variant: the override rebuilds the record and loses its activation date
addQuestions_Restamp(st, n) ==
  LET lic == getLicense(st)
  IN IF lic = Null THEN st
     ELSE saveLicense([lic EXCEPT !.questionsUsed = Max(0, lic.questionsUsed - n),
                                  !.activationDate = 0])

\* Faulty variant: the counter is lowered without the floor at zero
addQuestions_NoFloor(st, n) ==
  LET lic == getLicense(st)
  IN IF lic = Null THEN st
     ELSE saveLicense([lic EXCEPT !.questionsUsed = lic.questionsUsed - n])

\* The store after triboiAdmin.addQuestions(n)
addQuestions(st, n) ==
  LET lic == getLicense(st)
  IN IF lic = Null THEN st
     ELSE saveLicense([lic EXCEPT !.questionsUsed = Max(0, lic.questionsUsed - n)])

Ev(op, outcome, reason) == [op |-> op, outcome |-> outcome, reason |-> reason]

----------------------------------------------------------------------------
(* Inputs of the client *)

\* Codes typed into the modals.
Codes ==
  { <<"b", "L", "u", "I", "4", "7", "9", "1">>,
    <<"P", "2", "0", "8", "5", "J", "V", "M">>,
    <<"B", "1", "9", "7", "4", "I", "U", "X">>,
    <<"B", "1", "9", "7", "4", "1", "U", "L">>,
    <<" ", " ">> }

\* Arguments of triboiAdmin.addQuestions
AdminAmounts == {1, 20}

----------------------------------------------------------------------------
(* INIT: the page load *)

LoadLocked(st, t) == ~checkStatus(st, t).valid

LoadModal(st, t) ==
  LET s == checkStatus(st, t)
  IN IF s.valid THEN "none"
     ELSE IF s.reason = "no_license" THEN "license" ELSE "expired"

\* init() on a fresh page over the store st at time t
PageInit(st, t) ==
  /\ licenseJustExpired' = FALSE
  /\ pending' = 0
  /\ licTimers' = 0
  /\ expTimers' = FALSE
  /\ locked' = LoadLocked(st, t)
  /\ modal' = LoadModal(st, t)

NotRun == [notRun |-> TRUE]

ValidatorIdle ==
  /\ vinput = <<>>
  /\ vvariant = <<>>
  /\ vresult = NotRun
  /\ vresult2 = NotRun

ServerIdle ==
  /\ licenses = <<>>
  /\ requests = <<>>
  /\ useOk = 0

ClientInit ==
  /\ storage = Absent
  /\ now = 0
  /\ licenseJustExpired = FALSE
  /\ pending = 0
  /\ licTimers = 0
  /\ expTimers = FALSE
  /\ locked = LoadLocked(Absent, 0)
  /\ modal = LoadModal(Absent, 0)
  /\ event = Ev("init", "none", "none")
  /\ denied = FALSE
  /\ renewed = FALSE

Init == ClientInit /\ ValidatorIdle /\ ServerIdle

----------------------------------------------------------------------------
(* Client operations *)

\* Faulty variant: the no_license branch clears the flag as the deny branch
\* does
SendClick_NoLicenseClearsFlag ==
  /\ ~locked
  /\ renewed' = FALSE
  /\ LET s == checkStatus(storage, now)
     IN IF ~s.valid /\ s.reason = "no_license"
          THEN /\ locked' = TRUE
               /\ modal' = "expired"
               /\ licenseJustExpired' = FALSE
               /\ event' = Ev("click", "deny", s.reason)
               /\ UNCHANGED <<pending, denied>>
        ELSE IF licenseJustExpired /\ ~s.valid
          THEN /\ locked' = TRUE
               /\ modal' = "expired"
               /\ licenseJustExpired' = FALSE
               /\ event' = Ev("click", "deny", s.reason)
               /\ denied' = TRUE
               /\ UNCHANGED pending
        ELSE /\ pending < MaxPending
             /\ pending' = pending + 1
             /\ event' = Ev("click", "allow", s.reason)
             /\ UNCHANGED <<locked, modal, licenseJustExpired, denied>>
  /\ UNCHANGED <<storage, now, licTimers, expTimers>>
  /\ UNCHANGED <<validatorVars, serverVars>>

\* Faulty variant: an invalid license is denied whether or not the flag is
\* set
SendClick_NoGrace ==
  /\ ~locked
  /\ renewed' = FALSE
  /\ LET s == checkStatus(storage, now)
     IN IF ~s.valid /\ s.reason = "no_license"
          THEN /\ locked' = TRUE
               /\ modal' = "expired"
               /\ event' = Ev("click", "deny", s.reason)
               /\ UNCHANGED <<licenseJustExpired, pending, denied>>
        ELSE IF ~s.valid
          THEN /\ locked' = TRUE
               /\ modal' = "expired"
               /\ licenseJustExpired' = FALSE
               /\ event' = Ev("click", "deny", s.reason)
               /\ denied' = TRUE
               /\ UNCHANGED pending
        ELSE /\ pending < MaxPending
             /\ pending' = pending + 1
             /\ event' = Ev("click", "allow", s.reason)
             /\ UNCHANGED <<locked, modal, licenseJustExpired, denied>>
  /\ UNCHANGED <<storage, now, licTimers, expTimers>>
  /\ UNCHANGED <<validatorVars, serverVars>>

\* The click listener of interceptSendButton
SendClick ==
  /\ ~locked
  /\ renewed' = FALSE
  /\ LET s == checkStatus(storage, now)
     IN IF ~s.valid /\ s.reason = "no_license"
          THEN /\ locked' = TRUE
               /\ modal' = "expired"
               /\ event' = Ev("click", "deny", s.reason)
               /\ UNCHANGED <<licenseJustExpired, pending, denied>>
        ELSE IF licenseJustExpired /\ ~s.valid
          THEN /\ locked' = TRUE
               /\ modal' = "expired"
               /\ licenseJustExpired' = FALSE
               /\ event' = Ev("click", "deny", s.reason)
               /\ denied' = TRUE
               /\ UNCHANGED pending
        ELSE /\ pending < MaxPending
             /\ pending' = pending + 1
             /\ event' = Ev("click", "allow", s.reason)
             /\ UNCHANGED <<locked, modal, licenseJustExpired, denied>>
  /\ UNCHANGED <<storage, now, licTimers, expTimers>>
  /\ UNCHANGED <<validatorVars, serverVars>>

\* Faulty variant: the callback consumes but never arms the flag
ConsumeTimer_NoFlag ==
  /\ pending > 0
  /\ pending' = pending - 1
  /\ storage' = incrementQuestions(storage)
  /\ event' = Ev("consume", "none", "none")
  /\ UNCHANGED <<licenseJustExpired, now, locked, modal, licTimers, expTimers,
                 denied, renewed>>
  /\ UNCHANGED <<validatorVars, serverVars>>

\* Faulty variant: the flag follows the fresh status, so a valid status clears it
ConsumeTimer_ClearsFlagWhenValid ==
  /\ pending > 0
  /\ pending' = pending - 1
  /\ storage' = incrementQuestions(storage)
  /\ LET s2 == checkStatus(incrementQuestions(storage), now)
     IN licenseJustExpired' =
          (~s2.valid /\ s2.reason \in {"questions_exceeded", "expired"})
  /\ event' = Ev("consume", "none", "none")
  /\ UNCHANGED <<now, locked, modal, licTimers, expTimers, denied, renewed>>
  /\ UNCHANGED <<validatorVars, serverVars>>

\* The setTimeout callback of the click listener: consume
ConsumeTimer ==
  /\ pending > 0
  /\ pending' = pending - 1
  /\ storage' = incrementQuestions(storage)
  /\ LET s2 == checkStatus(incrementQuestions(storage), now)
     IN licenseJustExpired' =
          IF ~s2.valid /\ s2.reason \in {"questions_exceeded", "expired"}
            THEN TRUE ELSE licenseJustExpired
  /\ event' = Ev("consume", "none", "none")
  /\ UNCHANGED <<now, locked, modal, licTimers, expTimers, denied, renewed>>
  /\ UNCHANGED <<validatorVars, serverVars>>

\* Faulty variant: the flag is cleared before the code is validated
activateLicense_ClearsFlagFirst(code) ==
  LET pack == validateCodePattern(code)
  IN /\ licenseJustExpired' = FALSE
     /\ IF pack = Null
          THEN UNCHANGED <<storage, denied, renewed>>
          ELSE /\ storage' = saveLicense(NewLicense(pack, now))
               /\ denied' = FALSE
               /\ renewed' = TRUE

\* Faulty variant: the new record is saved and the flag is left as it was
activateLicense_KeepsFlag(code) ==
  LET pack == validateCodePattern(code)
  IN IF pack = Null
       THEN UNCHANGED <<storage, licenseJustExpired, denied, renewed>>
       ELSE /\ storage' = saveLicense(NewLicense(pack, now))
            /\ UNCHANGED licenseJustExpired
            /\ denied' = FALSE
            /\ renewed' = TRUE

\* activateLicense(code): what it does to the store and the flag
activateLicense(code) ==
  LET pack == validateCodePattern(code)
  IN IF pack = Null
       THEN UNCHANGED <<storage, licenseJustExpired, denied, renewed>>
       ELSE /\ storage' = saveLicense(NewLicense(pack, now))
            /\ licenseJustExpired' = FALSE
            /\ denied' = FALSE
            /\ renewed' = TRUE

\* btn.onclick of a modal on the input raw; on success it schedules the
\* follow-up of that modal
ModalActivate(raw, which) ==
  LET code == Trim(raw)
      pack == validateCodePattern(code)
  IN IF code = <<>>
       THEN /\ event' = Ev("activate", "fail", "empty")
            /\ UNCHANGED <<storage, licenseJustExpired, licTimers, expTimers,
                           denied, renewed>>
     ELSE /\ activateLicense(code)
          /\ IF pack = Null
               THEN /\ event' = Ev("activate", "fail", "invalid_code")
                    /\ UNCHANGED <<licTimers, expTimers>>
               ELSE /\ event' = Ev("activate", "success", pack.name)
                    /\ IF which = "license"
                         THEN /\ licTimers < MaxTimers
                              /\ licTimers' = licTimers + 1
                              /\ UNCHANGED expTimers
                         ELSE /\ expTimers' = TRUE
                              /\ UNCHANGED licTimers

\* btn.onclick of createModal
LicenseModalActivate ==
  /\ modal = "license"
  /\ \E raw \in Codes : ModalActivate(raw, "license")
  /\ UNCHANGED <<now, pending, locked, modal>>
  /\ UNCHANGED <<validatorVars, serverVars>>

\* btn.onclick of showExpiredModal
ExpiredModalActivate ==
  /\ modal = "expired"
  /\ \E raw \in Codes : ModalActivate(raw, "expired")
  /\ UNCHANGED <<now, pending, locked, modal>>
  /\ UNCHANGED <<validatorVars, serverVars>>

\* closeBtn.onclick of showExpiredModal
ExpiredModalClose ==
  /\ modal = "expired"
  /\ modal' = "none"
  /\ event' = Ev("close", "none", "none")
  /\ UNCHANGED <<storage, licenseJustExpired, now, pending, locked,
                 licTimers, expTimers, denied, renewed>>
  /\ UNCHANGED <<validatorVars, serverVars>>

\* The setTimeout callback after a successful activation in createModal
LicenseModalTimer ==
  /\ licTimers > 0
  /\ licTimers' = licTimers - 1
  /\ modal' = IF modal = "license" THEN "none" ELSE modal
  /\ locked' = FALSE
  /\ event' = Ev("unlock", "none", "none")
  /\ UNCHANGED <<storage, licenseJustExpired, now, pending, expTimers, denied,
                 renewed>>
  /\ UNCHANGED <<validatorVars, serverVars>>

\* The setTimeout callback after a successful activation in
\* showExpiredModal: it ends with location.reload()
ExpiredModalTimer ==
  /\ expTimers
  /\ PageInit(storage, now)
  /\ event' = Ev("init", "none", "none")
  /\ UNCHANGED <<storage, now, denied, renewed>>
  /\ UNCHANGED <<validatorVars, serverVars>>

\* triboiAdmin.addQuestions(n)
AdminAddQuestions ==
  /\ \E n \in AdminAmounts : storage' = addQuestions(storage, n)
  /\ denied' = (denied /\ ~checkStatus(storage', now).valid)
  /\ event' = Ev("addQuestions", "none", "none")
  /\ UNCHANGED <<licenseJustExpired, now, pending, locked, modal,
                 licTimers, expTimers, renewed>>
  /\ UNCHANGED <<validatorVars, serverVars>>

\* triboiAdmin.clearLicense(): clearLicense() and location.reload()
AdminClearLicense ==
  /\ storage' = clearLicense
  /\ PageInit(clearLicense, now)
  /\ event' = Ev("clear", "none", "none")
  /\ denied' = FALSE
  /\ renewed' = FALSE
  /\ UNCHANGED now
  /\ UNCHANGED <<validatorVars, serverVars>>

\* The page is loaded again: init() runs on a fresh script instance
Reload ==
  /\ PageInit(storage, now)
  /\ event' = Ev("init", "none", "none")
  /\ UNCHANGED <<storage, now, denied, renewed>>
  /\ UNCHANGED <<validatorVars, serverVars>>

\* localStorage.removeItem(STORAGE_KEY) from outside this page (another tab
\* of the origin, the browser's storage tools): the slot is emptied and no
\* handler of this page runs
StorageRemoved ==
  /\ storage # Absent
  /\ storage' = Absent
  /\ event' = Ev("storageRemoved", "none", "none")
  /\ denied' = FALSE
  /\ renewed' = FALSE
  /\ UNCHANGED <<licenseJustExpired, now, pending, locked, modal,
                 licTimers, expTimers>>
  /\ UNCHANGED <<validatorVars, serverVars>>

\* The slot is overwritten from outside this page with a text that is not
\* JSON
StorageDamaged ==
  /\ storage # Damaged
  /\ storage' = Damaged
  /\ event' = Ev("storageDamaged", "none", "none")
  /\ denied' = FALSE
  /\ renewed' = FALSE
  /\ UNCHANGED <<licenseJustExpired, now, pending, locked, modal,
                 licTimers, expTimers>>
  /\ UNCHANGED <<validatorVars, serverVars>>

\* Time passes
Advance ==
  /\ \E d \in Jumps : now + d <= MaxNow /\ now' = now + d
  /\ event' = Ev("advance", "none", "none")
  /\ UNCHANGED <<storage, licenseJustExpired, pending, locked, modal,
                 licTimers, expTimers, denied, renewed>>
  /\ UNCHANGED <<validatorVars, serverVars>>

Next ==
  \/ SendClick
  \/ ConsumeTimer
  \/ LicenseModalActivate
  \/ ExpiredModalActivate
  \/ ExpiredModalClose
  \/ LicenseModalTimer
  \/ ExpiredModalTimer
  \/ AdminAddQuestions
  \/ AdminClearLicense
  \/ Reload
  \/ StorageRemoved
  \/ StorageDamaged
  \/ Advance

Spec == Init /\ [][Next]_vars

\* btn.onclick of createModal, clicked once more with an accepted code while
\* MaxTimers follow-ups of earlier clicks are scheduled: the modal stays in
\* the document for 1200 ms after a success, and each success schedules
\* its own follow-up
LicenseModalActivateAgain ==
  /\ modal = "license"
  /\ licTimers = MaxTimers
  /\ \E raw \in Codes :
       LET code == Trim(raw)
           pack == validateCodePattern(code)
       IN /\ code # <<>>
          /\ pack # Null
          /\ activateLicense(code)
          /\ event' = Ev("activate", "success", pack.name)
  /\ licTimers' = licTimers + 1
  /\ UNCHANGED <<now, pending, locked, modal, expTimers>>
  /\ UNCHANGED <<validatorVars, serverVars>>

DoubleActivationNext == Next \/ LicenseModalActivateAgain

\* The client gate with one more activation click in the license modal
\* than Spec admits
DoubleActivationSpec == Init /\ [][DoubleActivationNext]_vars

----------------------------------------------------------------------------
(* Validator harness: triboiAdmin.testCode on a candidate and on a        *)
(* rewritten form of it                                                    *)

B1974IUL == <<"B", "1", "9", "7", "4", "I", "U", "L">>

B1974IUX == <<"B", "1", "9", "7", "4", "I", "U", "X">>

B19741UL == <<"B", "1", "9", "7", "4", "1", "U", "L">>

Candidates ==
  { B1974IUL, B1974IUX, B19741UL,
    <<"B", "L", "U", "I", "4", "7", "9", "1">>,
    <<"b", "1", "9", "7", "4", "i", "u", "l">>,
    <<"P", "2", "0", "8", "5", "J", "V", "M">>,
    <<"p", "m", "v", "j", "5", "8", "0", "2">>,
    <<"P", "1", "9", "7", "4", "I", "U", "L">>,
    <<"B", "2", "0", "8", "5", "J", "V", "M">>,
    <<"X", "1", "9", "7", "4", "I", "U", "L">>,
    <<"1", "B", "9", "7", "4", "I", "U", "L">>,
    <<"B", "1", "9", "7", "4", "I", "U">>,
    <<"B", "1", "9", "7", "4", "I", "U", "L", "L">>,
    <<"B", "1", "1", "7", "4", "I", "U", "L">>,
    <<"P", "2", "0", "8", "5", "J", "V", "V">>,
    <<" ", "B", "1", "9", "7", "\t", "4", "I", "U", "L", " ">>,
    <<"B", " ", "1", "9", "7", "4", "I", "U">>,
    <<"B">>,
    <<" ">>,
    <<>> }

\* Positions of the characters of s that are not whitespace
NonSpacePos(s) == SelectSeq([i \in 1..Len(s) |-> i], LAMBDA i : ~IsSpace(s[i]))

\* s with the characters after its first one (whitespace aside) rearranged
BodyPermutations(s) ==
  LET pos == NonSpacePos(s)
      body == IF pos = <<>> THEN <<>> ELSE Tail(pos)
      k == Len(body)
  IN { [i \in 1..Len(s) |->
          IF \E j \in 1..k : body[j] = i
            THEN s[body[p[CHOOSE j \in 1..k : body[j] = i]]]
            ELSE s[i]] : p \in Permutations(1..k) }

ToggleCase(c) == IF UpperChar(c) # c THEN UpperChar(c) ELSE LowerChar(c)

CaseChanges(s) ==
  { [i \in 1..Len(s) |-> LowerChar(s[i])], [i \in 1..Len(s) |-> UpperChar(s[i])] }
  \cup { [s EXCEPT ![i] = ToggleCase(s[i])] : i \in 1..Len(s) }

SpaceInsertions(s) ==
  { SubSeq(s, 1, i) \o <<w>> \o SubSeq(s, i + 1, Len(s)) :
      i \in 0..Len(s), w \in {" ", "\t"} }

Variants(s) == BodyPermutations(s) \cup CaseChanges(s) \cup SpaceInsertions(s)

ValidatorInit ==
  /\ ClientInit
  /\ ServerIdle
  /\ vinput \in Candidates
  /\ vvariant = <<>>
  /\ vresult = NotRun
  /\ vresult2 = NotRun

\* triboiAdmin.testCode(vinput)
TestCode ==
  /\ vresult = NotRun
  /\ vresult' = validateCodePattern(vinput)
  /\ UNCHANGED <<vinput, vvariant, vresult2>>
  /\ UNCHANGED <<clientVars, serverVars>>

\* triboiAdmin.testCode on a rewritten form of the candidate
TestVariant ==
  /\ vresult # NotRun
  /\ vresult2 = NotRun
  /\ \E v \in Variants(vinput) :
       /\ vvariant' = v
       /\ vresult2' = validateCodePattern(v)
  /\ UNCHANGED <<vinput, vresult>>
  /\ UNCHANGED <<clientVars, serverVars>>

ValidatorNext == TestCode \/ TestVariant

ValidatorSpec == ValidatorInit /\ [][ValidatorNext]_vars

----------------------------------------------------------------------------
(* Server variant: database.js and the license routes *)

MaxRequests == 2

\* 30 * 24 * 60 * 60 * 1000 ms, in days
ExpiryDays == 30

\* Date.prototype.toISOString of the instant t
toISOString(t) == [iso |-> t]

\* new Date(text).getTime()
getTime(text) == text.iso

SeedBasicCode == "B1IUL0JVM1I9"

SeedPremiumCode == "P9JVM1IUL0V1"

\* The record seed() and createLicense() build
LicenseRecord(code, type, questionsTotal, t) ==
  [code |-> code, type |-> type, questions_total |-> questionsTotal,
   questions_used |-> 0, status |-> "ACTIVE",
   created_at |-> toISOString(t), activated_at |-> Null,
   last_used_at |-> Null,
   expires_at |-> toISOString(t + ExpiryDays * TicksPerDay)]

\* The Map after seed() at time t
seed(t) ==
  (SeedBasicCode :> LicenseRecord(SeedBasicCode, "BASIC", 50, t))
    @@ (SeedPremiumCode :> LicenseRecord(SeedPremiumCode, "PREMIUM", 500, t))

\* Faulty variant: the status field is not looked at
checkLicenseStatus_IgnoresStatus(db, code, t) ==
  IF code \notin DOMAIN db
    THEN [valid |-> FALSE, reason |-> "License not found"]
  ELSE
    LET lic == db[code]
    IN IF lic.expires_at # Null /\ getTime(lic.expires_at) < t
         THEN [valid |-> FALSE, reason |-> "License expired"]
       ELSE
         LET remaining == lic.questions_total - lic.questions_used
         IN IF remaining <= 0
              THEN [valid |-> FALSE, reason |-> "No questions remaining",
                    questionsRemaining |-> 0]
              ELSE [valid |-> TRUE, reason |-> "none",
                    questionsRemaining |-> remaining]

checkLicenseStatus(db, code, t) ==
  IF code \notin DOMAIN db
    THEN [valid |-> FALSE, reason |-> "License not found"]
  ELSE
    LET lic == db[code]
    IN IF lic.status # "ACTIVE"
         THEN [valid |-> FALSE, reason |-> "License status"]
       ELSE IF lic.expires_at # Null /\ getTime(lic.expires_at) < t
         THEN [valid |-> FALSE, reason |-> "License expired"]
       ELSE
         LET remaining == lic.questions_total - lic.questions_used
         IN IF remaining <= 0
              THEN [valid |-> FALSE, reason |-> "No questions remaining",
                    questionsRemaining |-> 0]
              ELSE [valid |-> TRUE, reason |-> "none",
                    questionsRemaining |-> remaining]

\* Faulty variant: the usage is stamped but not counted
incrementQuestionUsage_NoCount(db, code, t) ==
  [db EXCEPT ![code] = [@ EXCEPT !.last_used_at = toISOString(t)]]

\* The Map after db.incrementQuestionUsage(code) on an existing code
incrementQuestionUsage(db, code, t) ==
  [db EXCEPT ![code] = [@ EXCEPT !.questions_used = @ + 1,
                                 !.last_used_at = toISOString(t)]]

\* The Map after db.activateLicense(code) on an existing code
dbActivateLicense(db, code, t) ==
  [db EXCEPT ![code] = [@ EXCEPT !.activated_at = toISOString(t)]]

\* The Map after db.createLicense(code, type, questionsTotal)
createLicense(db, code, type, questionsTotal, t) ==
  [c \in DOMAIN db \cup {code} |->
     IF c = code THEN LicenseRecord(code, type, questionsTotal, t) ELSE db[c]]

\* Inputs of the server
NewCode == "B11111111111"

RequestCodes == {NewCode, "P00000000000"}

CreateTypes == {"BASIC", "GOLD"}

CreateTotals == {1, 2}

\* Clock jumps of the server: the expiry period, and a tick more
ServerJumps == {ExpiryDays * TicksPerDay, ExpiryDays * TicksPerDay + 1}

\* The bag r with one copy of the request a replaced by b
Replace(r, a, b) == (r (-) SetToBag({a})) (+) SetToBag({b})

ServerInit ==
  /\ ClientInit
  /\ ValidatorIdle
  /\ licenses = seed(0)
  /\ requests = EmptyBag
  /\ useOk = 0

\* db.createLicense(code, type, questionsTotal).  A handler that holds the
\* replaced object keeps reading the activated_at of that object, not of
\* the new record; a use handler that has incremented the replaced object
\* answers for that object.
CreateLicense ==
  /\ \E type \in CreateTypes, total \in CreateTotals :
       licenses' = createLicense(licenses, NewCode, type, total, now)
  /\ useOk' = 0
  /\ LET Freeze(r) ==
           IF r.pc = "activate_got" /\ r.code = NewCode /\ r.license.ref = "live"
             THEN [r EXCEPT !.license =
                     [ref |-> "stale",
                      activated_at |-> licenses[NewCode].activated_at]]
           ELSE IF r.pc = "use_respond" /\ r.code = NewCode
             THEN [r EXCEPT !.license = [ref |-> "stale"]]
             ELSE r
         frozen == {Freeze(r) : r \in BagToSet(requests)}
     IN requests' =
          [f \in frozen |->
             LET from == {r \in BagToSet(requests) : Freeze(r) = f}
                 a == CHOOSE r \in from : TRUE
             IN IF Cardinality(from) = 1 THEN requests[a]
                ELSE requests[a] + requests[CHOOSE r \in from : r # a]]
  /\ UNCHANGED <<clientVars, validatorVars>>

\* POST /api/license/use up to the first await: db.checkLicenseStatus(code)
UseStart ==
  /\ BagCardinality(requests) < MaxRequests
  /\ \E code \in RequestCodes :
       requests' = requests (+) SetToBag({
                      [pc |-> "use_checked", code |-> code,
                       status |-> checkLicenseStatus(licenses, code, now)]})
  /\ UNCHANGED <<licenses, useOk>>
  /\ UNCHANGED <<clientVars, validatorVars>>

\* POST /api/license/use after the status check: 403, or
\* db.incrementQuestionUsage(code) up to the second await (500 when it
\* throws 'License not found')
UseIncrement ==
  /\ \E r \in BagToSet(requests) :
       /\ r.pc = "use_checked"
       /\ IF ~r.status.valid
            THEN /\ requests' = requests (-) SetToBag({r})
                 /\ UNCHANGED licenses
          ELSE IF r.code \notin DOMAIN licenses
            THEN /\ requests' = requests (-) SetToBag({r})
                 /\ UNCHANGED licenses
            ELSE /\ licenses' = incrementQuestionUsage(licenses, r.code, now)
                 /\ requests' = Replace(requests, r,
                                        [pc |-> "use_respond", code |-> r.code,
                                         license |-> [ref |-> "live"]])
  /\ UNCHANGED useOk
  /\ UNCHANGED <<clientVars, validatorVars>>

\* POST /api/license/use: res.json({ success: true, ... })
UseRespond ==
  /\ \E r \in BagToSet(requests) :
       /\ r.pc = "use_respond"
       /\ requests' = requests (-) SetToBag({r})
       /\ useOk' = IF r.license.ref = "live" THEN useOk + 1 ELSE useOk
  /\ UNCHANGED licenses
  /\ UNCHANGED <<clientVars, validatorVars>>

\* Faulty variant: db.getLicense hands out a copy of the record, not the
\* stored object
ActivateStart_Copy ==
  /\ BagCardinality(requests) < MaxRequests
  /\ \E code \in RequestCodes :
       requests' = requests (+) SetToBag({
                      [pc |-> "activate_got", code |-> code,
                       license |-> IF code \in DOMAIN licenses
                                     THEN [ref |-> "copy",
                                           activated_at |->
                                             licenses[code].activated_at]
                                     ELSE [ref |-> "null"]]})
  /\ UNCHANGED <<licenses, useOk>>
  /\ UNCHANGED <<clientVars, validatorVars>>

\* POST /api/license/activate up to the first await: db.getLicense(code)
ActivateStart ==
  /\ BagCardinality(requests) < MaxRequests
  /\ \E code \in RequestCodes :
       requests' = requests (+) SetToBag({
                      [pc |-> "activate_got", code |-> code,
                       license |-> IF code \in DOMAIN licenses
                                     THEN [ref |-> "live"]
                                     ELSE [ref |-> "null"]]})
  /\ UNCHANGED <<licenses, useOk>>
  /\ UNCHANGED <<clientVars, validatorVars>>

\* POST /api/license/activate after db.getLicense: 404, 400, or
\* db.activateLicense(code) up to the second await
ActivateCheck ==
  /\ \E r \in BagToSet(requests) :
       /\ r.pc = "activate_got"
       /\ LET activated_at ==
                IF r.license.ref = "live" THEN licenses[r.code].activated_at
                ELSE r.license.activated_at
          IN IF r.license.ref = "null"
               THEN /\ requests' = requests (-) SetToBag({r})
                    /\ UNCHANGED licenses
             ELSE IF activated_at # Null
               THEN /\ requests' = requests (-) SetToBag({r})
                    /\ UNCHANGED licenses
             ELSE /\ licenses' = dbActivateLicense(licenses, r.code, now)
                  /\ requests' = Replace(requests, r,
                                   [pc |-> "activate_respond", code |-> r.code])
  /\ UNCHANGED useOk
  /\ UNCHANGED <<clientVars, validatorVars>>

\* POST /api/license/activate: res.json({ success: true, ... })
ActivateRespond ==
  /\ \E r \in BagToSet(requests) :
       /\ r.pc = "activate_respond"
       /\ requests' = requests (-) SetToBag({r})
  /\ UNCHANGED <<licenses, useOk>>
  /\ UNCHANGED <<clientVars, validatorVars>>

\* External revocation: the holder of a record object handed out by
\* db.getLicense or db.getAllLicenses sets its status field
Revoke ==
  /\ NewCode \in DOMAIN licenses
  /\ licenses[NewCode].status = "ACTIVE"
  /\ licenses' = [licenses EXCEPT ![NewCode].status = "REVOKED"]
  /\ UNCHANGED <<requests, useOk>>
  /\ UNCHANGED <<clientVars, validatorVars>>

\* Time passes on the server
ServerAdvance ==
  /\ \E d \in ServerJumps : now + d <= MaxNow /\ now' = now + d
  /\ UNCHANGED <<storage, licenseJustExpired, pending, locked, modal,
                 licTimers, expTimers, event, denied, renewed>>
  /\ UNCHANGED <<validatorVars, serverVars>>

ServerNext ==
  \/ CreateLicense
  \/ UseStart
  \/ UseIncrement
  \/ UseRespond
  \/ ActivateStart
  \/ ActivateCheck
  \/ ActivateRespond
  \/ Revoke
  \/ ServerAdvance

ServerSpec == ServerInit /\ [][ServerNext]_vars

----------------------------------------------------------------------------
(* Properties of the validator (ValidatorSpec) *)

\* The candidate as the claim normalizes it: whitespace removed, upper case
NormalForm(s) ==
  LET t == SelectSeq(s, LAMBDA c : c \notin {" ", "\t"})
  IN [i \in 1..Len(t) |-> UpperChar(t[i])]

\* The multiset of the characters of s
CharBag(s) ==
  [c \in {s[i] : i \in 1..Len(s)} |-> Cardinality({i \in 1..Len(s) : s[i] = c})]

TierOfPrefix(c) == IF c = "B" THEN "BASIC" ELSE "PREMIUM"

\* What the claim says validateCodePattern returns on s
Accepted(s) ==
  LET n == NormalForm(s)
  IN /\ Len(n) = 8
     /\ n[1] \in {"B", "P"}
     /\ CharBag(SubSeq(n, 2, 8)) = CharBag(LICENSE_CONFIG[TierOfPrefix(n[1])].chars)

AsClaimed(s, r) ==
  IF Accepted(s)
    THEN /\ r # Null
         /\ r.code = NormalForm(s)
         /\ r.type = TierOfPrefix(NormalForm(s)[1])
         /\ r.maxQuestions = LICENSE_CONFIG[r.type].maxQuestions
         /\ r.maxDays = LICENSE_CONFIG[r.type].maxDays
    ELSE r = Null

\* C9: validateCodePattern accepts a candidate exactly when its normalized
\* form has length 8, starts with B or P and its 7 body characters are the
\* multiset of that tier's reference characters; it then returns the
\* normalized code with the tier's maxQuestions and maxDays, and null
\* otherwise.  B1974IUL is BASIC; B1974IUX and B19741UL are rejected.
C9_ValidatorContract ==
  /\ vresult # NotRun => AsClaimed(vinput, vresult)
  /\ vresult2 # NotRun => AsClaimed(vvariant, vresult2)
  /\ (vresult # NotRun /\ vinput = B1974IUL) =>
        (vresult # Null /\ vresult.type = "BASIC" /\ vresult.maxQuestions = 10
           /\ vresult.maxDays = 30)
  /\ (vresult # NotRun /\ vinput \in {B1974IUX, B19741UL}) => vresult = Null

\* A candidate and a rewriting of it with another normalized code have both
\* been accepted, the rewriting as a BASIC anagram not in reference order.
C9_Witness ==
  /\ vresult # NotRun
  /\ vresult2 # NotRun
  /\ vresult # Null
  /\ vresult2 # Null
  /\ vresult2.type = "BASIC"
  /\ SubSeq(vresult2.code, 2, 8) # LICENSE_CONFIG.BASIC.chars
  /\ vresult2.code # vresult.code

Outcome(r) == IF r = Null THEN "rejected" ELSE r.type

\* C10: the outcome of validateCodePattern (rejected, or the resolved tier)
\* is the same for a candidate and for the candidate with its body
\* characters permuted, its letter case changed or whitespace inserted.
C10_AnagramInvariance ==
  (vresult # NotRun /\ vresult2 # NotRun) => Outcome(vresult2) = Outcome(vresult)

\* An accepted candidate and a different accepted rewriting of it whose
\* raw text differs in case or whitespace from its normalized code.
C10_Witness ==
  /\ vresult # NotRun
  /\ vresult2 # NotRun
  /\ vresult # Null
  /\ vresult2 # Null
  /\ vvariant # vinput
  /\ vvariant # vresult2.code
  /\ vresult.type = "PREMIUM"

----------------------------------------------------------------------------
(* Properties of the client gate (Spec) *)

Lic == getLicense(storage)

HasLicense == Lic # Null

Status == checkStatus(storage, now)

\* Every handler leaves its name in event, so the handler of a step is
\* read off event'.
ClickStep == event'.op = "click"

ConsumeStep == event'.op = "consume"

ActivationSucceeds == event'.op = "activate" /\ event'.outcome = "success"

\* The consume that has just run was the 10th of a license of 10 questions
AfterTenthConsume ==
  /\ event.op = "consume"
  /\ HasLicense
  /\ Lic.maxQuestions = 10
  /\ Lic.questionsUsed = 10

\* C1 as stated: with maxQuestions = 10, the send click that immediately
\* follows the 10th consume is still allowed, and the click that follows
\* the next consume is denied with reason questions_exceeded.
C1_GraceAfterTenthConsume ==
  [][ClickStep =>
       /\ AfterTenthConsume => event'.outcome = "allow"
       /\ (event.op = "consume" /\ HasLicense /\ Lic.maxQuestions = 10
             /\ Lic.questionsUsed = 11)
            => event' = Ev("click", "deny", "questions_exceeded")]_vars

\* C1 amended: with maxQuestions = 10, the send click that immediately
\* follows the 10th consume is denied with reason questions_exceeded and
\* clears the flag; the clicks of a valid license before it were allowed.
C1_DenyAfterTenthConsume ==
  [][ClickStep =>
       /\ AfterTenthConsume =>
            /\ event' = Ev("click", "deny", "questions_exceeded")
            /\ ~licenseJustExpired'
            /\ pending' = pending
       /\ Status.valid => event'.outcome = "allow"]_vars

\* The click after the 10th consume of a BASIC license has been denied.
C1_Witness ==
  /\ event = Ev("click", "deny", "questions_exceeded")
  /\ HasLicense
  /\ Lic.maxQuestions = 10
  /\ Lic.questionsUsed = 10
  /\ pending = 0
  /\ locked

\* C2: a send click is evaluated only when no consume callback of an
\* earlier allowed click is outstanding, so that no two clicks are admitted
\* against the same questionsUsed.
C2_PreCheckObservesConsume == [][ClickStep => pending = 0]_vars

\* C3: a stored license with questionsUsed >= maxQuestions whose day budget
\* is exhausted as well evaluates to questions_exceeded, not to expired.
C3_ClientTieBreak ==
  (HasLicense /\ Lic.questionsUsed >= Lic.maxQuestions
     /\ Lic.maxDays - ((now - Lic.activationDate) \div TicksPerDay) <= 0)
    => (~Status.valid /\ Status.reason = "questions_exceeded")

\* A license out of questions and out of days.
C3_Witness ==
  /\ HasLicense
  /\ Lic.questionsUsed >= Lic.maxQuestions
  /\ now - Lic.activationDate >= Lic.maxDays * TicksPerDay

\* C5: right after activateLicense has succeeded, checkStatus at the same
\* instant is valid with questionsRemaining = the tier's maxQuestions and
\* daysRemaining = the tier's maxDays.
C5_FreshLicenseHasFullBudgets ==
  (event.op = "activate" /\ event.outcome = "success") =>
    /\ HasLicense
    /\ Status = [valid |-> TRUE, reason |-> "none",
                 questionsRemaining |-> LICENSE_CONFIG[Lic.type].maxQuestions,
                 daysRemaining |-> LICENSE_CONFIG[Lic.type].maxDays]

\* A renewal through the expired modal, later than the first page load.
C5_Witness ==
  /\ event.op = "activate"
  /\ event.outcome = "success"
  /\ modal = "expired"
  /\ now > 0
  /\ Lic.type = "BASIC"

\* C6: every consume on a stored license raises questionsUsed by one; when
\* it reaches maxQuestions checkStatus reports questions_exceeded, and below
\* maxQuestions it reports valid as long as the day budget holds.
C6_ConsumeCountsUp ==
  [][(ConsumeStep /\ HasLicense) =>
       LET lic2 == getLicense(storage')
           s2 == checkStatus(storage', now')
       IN /\ lic2 # Null
          /\ lic2.questionsUsed = Lic.questionsUsed + 1
          /\ lic2.questionsUsed >= lic2.maxQuestions
               => (~s2.valid /\ s2.reason = "questions_exceeded")
          /\ (lic2.questionsUsed < lic2.maxQuestions
                /\ (now' - lic2.activationDate) \div TicksPerDay < lic2.maxDays)
               => (s2.valid /\ s2.questionsRemaining
                                 = lic2.maxQuestions - lic2.questionsUsed)]_vars

\* The consume that exhausts a PREMIUM license has run.
C6_Witness ==
  /\ event.op = "consume"
  /\ HasLicense
  /\ Lic.type = "PREMIUM"
  /\ Lic.questionsUsed = Lic.maxQuestions
  /\ Status.reason = "questions_exceeded"

\* A step of the normal flow: not the administrative override or clear
NormalFlow == event'.op \notin {"addQuestions", "clear"}

\* C7 as stated: over activate, preCheck and consume the stored
\* questionsUsed is never negative and never decreases.
C7_QuestionsUsedNeverDecreases ==
  [][NormalFlow =>
       /\ getLicense(storage') # Null => getLicense(storage').questionsUsed >= 0
       /\ (HasLicense /\ getLicense(storage') # Null)
            => getLicense(storage').questionsUsed >= Lic.questionsUsed]_vars

\* C7 amended: over activate, preCheck and consume the stored questionsUsed
\* is never negative, and it never decreases except in a successful
\* activateLicense, which stores a new record with questionsUsed = 0.
C7_QuestionsUsedDecreasesOnlyOnActivation ==
  [][NormalFlow =>
       /\ getLicense(storage') # Null => getLicense(storage').questionsUsed >= 0
       /\ (HasLicense /\ getLicense(storage') # Null /\ ~ActivationSucceeds)
            => getLicense(storage').questionsUsed >= Lic.questionsUsed
       /\ ActivationSucceeds => getLicense(storage').questionsUsed = 0]_vars

\* Questions have been consumed on a license activated after the first
\* page load.
C7_Witness ==
  /\ event.op = "consume"
  /\ HasLicense
  /\ Lic.questionsUsed >= 2
  /\ Lic.activationDate > 0

\* C8 as stated: while a record exists, no operation changes its
\* activationDate.
C8_ActivationDateImmutable ==
  [][(HasLicense /\ getLicense(storage') # Null)
       => getLicense(storage').activationDate = Lic.activationDate]_vars

\* C8 amended: while a record exists, no operation changes its
\* activationDate except a successful activateLicense, which stores a new
\* record with activationDate = now.
C8_ActivationDateChangesOnlyOnActivation ==
  [][/\ (HasLicense /\ getLicense(storage') # Null /\ ~ActivationSucceeds)
          => getLicense(storage').activationDate = Lic.activationDate
     /\ ActivationSucceeds => getLicense(storage').activationDate = now]_vars

\* The administrative override has run on a record activated earlier.
C8_Witness ==
  /\ event.op = "addQuestions"
  /\ HasLicense
  /\ Lic.activationDate > 0
  /\ Lic.questionsUsed > 0

\* C11: when activateLicense is called with a code the validator rejects,
\* it reports a failure and the stored record (present or absent) and the
\* flag are exactly as before the call.
C11_RejectedActivationChangesNothing ==
  [][(event'.op = "activate" /\ event'.reason = "invalid_code") =>
       /\ event'.outcome = "fail"
       /\ storage' = storage
       /\ licenseJustExpired' = licenseJustExpired]_vars

\* A rejected code has been entered in the expired modal while a record is
\* stored and the flag is set.
C11_Witness ==
  /\ event = Ev("activate", "fail", "invalid_code")
  /\ HasLicense
  /\ licenseJustExpired
  /\ modal = "expired"

\* C12: a send click whose pre-check finds no license record is denied
\* with reason no_license: no consume is scheduled, and the store and the
\* flag are left as they were, whatever the flag's value.
C12_NoLicenseIsHardStop ==
  [][(ClickStep /\ Status.reason = "no_license") =>
       /\ event' = Ev("click", "deny", "no_license")
       /\ pending' = pending
       /\ storage' = storage
       /\ licenseJustExpired' = licenseJustExpired]_vars

\* A click has been denied for no_license while the flag was set.
C12_Witness ==
  /\ event = Ev("click", "deny", "no_license")
  /\ storage = Absent
  /\ licenseJustExpired

\* The reasons of a license that ran out of a budget
BudgetReasons == {"questions_exceeded", "expired"}

\* C13: a send click on a license invalid for questions_exceeded or
\* expired is denied when the flag is set (no consume is scheduled and the
\* flag is cleared), and is allowed when the flag is not set (exactly one
\* consume is scheduled).
C13_DeferredBlockDecision ==
  [][(ClickStep /\ ~Status.valid /\ Status.reason \in BudgetReasons) =>
       IF licenseJustExpired
         THEN /\ event' = Ev("click", "deny", Status.reason)
              /\ pending' = pending
              /\ ~licenseJustExpired'
         ELSE /\ event' = Ev("click", "allow", Status.reason)
              /\ pending' = pending + 1
              /\ ~licenseJustExpired']_vars

\* A click on a license whose days ran out while the page was open has
\* been let through, and its consume is scheduled.
C13_Witness ==
  /\ event = Ev("click", "allow", "expired")
  /\ pending = 1
  /\ ~licenseJustExpired
  /\ HasLicense

\* C14: whenever the flag licenseJustExpired is set, the stored license
\* evaluates as invalid (the consume that set the flag left it invalid and
\* nothing has made it valid since), also after the administrative
\* addQuestions override.
C14_FlagImpliesInvalid == licenseJustExpired => ~Status.valid

AddQuestionsStep == event'.op = "addQuestions"

\* C17: triboiAdmin.addQuestions(n) on a stored license, an exhausted one
\* included, lowers questionsUsed to max(0, questionsUsed - n), never below
\* zero; afterwards checkStatus is valid whenever the new questionsUsed is
\* below maxQuestions and the day budget still holds.
C17_AddQuestionsRestores ==
  [][(AddQuestionsStep /\ HasLicense) =>
       LET lic2 == getLicense(storage')
           s2 == checkStatus(storage', now')
       IN /\ lic2 # Null
          /\ \E n \in AdminAmounts :
               lic2.questionsUsed = Max(0, Lic.questionsUsed - n)
          /\ lic2.questionsUsed >= 0
          /\ (lic2.questionsUsed < lic2.maxQuestions
                /\ (now' - lic2.activationDate) \div TicksPerDay < lic2.maxDays)
               => s2.valid]_vars

\* The override has taken one question off a license that a consume had
\* exhausted (the flag of that consume is still set), and the license is
\* valid again.
C17_Witness ==
  /\ event.op = "addQuestions"
  /\ HasLicense
  /\ licenseJustExpired
  /\ Lic.questionsUsed = Lic.maxQuestions - 1
  /\ Status.valid

\* Whole days elapsed since the activation of the stored license
ElapsedWholeDays == (now - Lic.activationDate) \div TicksPerDay

\* C18: for a stored license with questions remaining, daysRemaining is
\* max(0, maxDays - whole elapsed days): the license is valid with that
\* many days while it is positive, and expired when it is 0.  A BASIC
\* license has 1 day left and is valid after 29 elapsed days, and is
\* expired after 30.
C18_DayBudgetArithmetic ==
  (HasLicense /\ Lic.questionsUsed < Lic.maxQuestions) =>
    LET days == Max(0, Lic.maxDays - ElapsedWholeDays)
    IN /\ days > 0 => (Status.valid /\ Status.daysRemaining = days)
       /\ days = 0 => (~Status.valid /\ Status.reason = "expired")
       /\ (Lic.type = "BASIC" /\ ElapsedWholeDays = 29)
            => (Status.valid /\ Status.daysRemaining = 1)
       /\ (Lic.type = "BASIC" /\ ElapsedWholeDays = 30)
            => (~Status.valid /\ Status.reason = "expired")

\* A BASIC license with questions left, 29 days and a fraction of a day
\* after its activation.
C18_Witness ==
  /\ HasLicense
  /\ Lic.type = "BASIC"
  /\ Lic.questionsUsed < Lic.maxQuestions
  /\ now - Lic.activationDate = 29 * TicksPerDay + 1
  /\ Status.valid
  /\ Status.daysRemaining = 1

\* C19: a stored text that does not parse is treated as an absent record:
\* getLicense yields null, checkStatus reports no_license, a consume writes
\* nothing, and a send click ends as the denial for no_license.
C19_DamagedRecordIsAbsent ==
  [][storage = Damaged =>
       /\ getLicense(storage) = Null
       /\ Status = [valid |-> FALSE, reason |-> "no_license"]
       /\ ConsumeStep => (storage' = storage
                           /\ licenseJustExpired' = licenseJustExpired)
       /\ ClickStep => (event' = Ev("click", "deny", "no_license")
                         /\ storage' = storage /\ pending' = pending)]_vars

\* The consume of an allowed click has run on a record damaged in between.
C19_Witness ==
  /\ event.op = "consume"
  /\ storage = Damaged

\* C20: a consume and the administrative addQuestions change nothing of a
\* stored record but questionsUsed: code, type, maxQuestions, maxDays and
\* activationDate are as before.
C20_BudgetsFixedAtActivation ==
  [][((ConsumeStep \/ AddQuestionsStep) /\ HasLicense) =>
       LET lic2 == getLicense(storage')
       IN /\ lic2 # Null
          /\ lic2.code = Lic.code
          /\ lic2.type = Lic.type
          /\ lic2.maxQuestions = Lic.maxQuestions
          /\ lic2.maxDays = Lic.maxDays
          /\ lic2.activationDate = Lic.activationDate]_vars

\* The first consume of a BASIC record has run on a later day than its
\* activation.
C20_Witness ==
  /\ event.op = "consume"
  /\ HasLicense
  /\ Lic.type = "BASIC"
  /\ Lic.code = <<"B", "L", "U", "I", "4", "7", "9", "1">>
  /\ Lic.questionsUsed = 1
  /\ now > Lic.activationDate

\* C21: once a send click has been denied for questions_exceeded or
\* expired, every later send click on that license is denied as well, as
\* long as the license stays invalid and no activateLicense has succeeded.
C21_DenialIsSticky ==
  [][(ClickStep /\ denied) => event'.outcome = "deny"]_vars

\* C25: the consume step stores the record with questionsUsed raised by
\* exactly one and nothing else changed, then takes the fresh status of the
\* stored record: when it is invalid for questions_exceeded or expired the
\* flag is set, and when it is valid or no_license the flag keeps the value
\* it had.
C25_ConsumeSetsFlagOnBudgetEnd ==
  [][ConsumeStep =>
       LET s2 == checkStatus(storage', now')
       IN /\ HasLicense =>
               storage' = saveLicense([Lic EXCEPT
                            !.questionsUsed = Lic.questionsUsed + 1])
          /\ (~s2.valid /\ s2.reason \in BudgetReasons) => licenseJustExpired'
          /\ (s2.valid \/ s2.reason = "no_license")
               => licenseJustExpired' = licenseJustExpired]_vars

\* C26: a successful activateLicense, whatever the record and the flag
\* before it, leaves the flag false and a stored record with questionsUsed
\* 0; and the first send click after it, as long as the record is still the
\* stored one and fewer than maxDays whole days have passed, is allowed.
C26_RenewalRestoresAccess ==
  [][/\ ActivationSucceeds =>
          /\ ~licenseJustExpired'
          /\ getLicense(storage') # Null
          /\ getLicense(storage').questionsUsed = 0
     /\ (ClickStep /\ renewed /\ HasLicense /\ ElapsedWholeDays < Lic.maxDays)
          => event'.outcome = "allow"]_vars

\* A code has been accepted in the expired modal, after a denied click,
\* while a consume scheduled before the denial is still outstanding.
C26_Witness ==
  /\ event.op = "activate"
  /\ event.outcome = "success"
  /\ renewed
  /\ modal = "expired"
  /\ denied = FALSE
  /\ pending > 0

\* A consume has run with the flag set and has found the license valid:
\* the flag is still set.
C25_Witness ==
  /\ event.op = "consume"
  /\ licenseJustExpired
  /\ Status.valid

----------------------------------------------------------------------------
(* Properties of the server (ServerSpec) *)

\* C4: an ACTIVE license whose questions are used up and whose expiry time
\* has passed is reported with the question-exhaustion reason, not with
\* the expiry reason.
C4_ServerTieBreak ==
  \A c \in DOMAIN licenses :
    (/\ licenses[c].status = "ACTIVE"
     /\ licenses[c].questions_used >= licenses[c].questions_total
     /\ getTime(licenses[c].expires_at) < now)
      => checkLicenseStatus(licenses, c, now).reason = "No questions remaining"

\* Use requests for NewCode that have incremented the stored record and
\* have not answered yet
OwedUseResponses ==
  LET r == [pc |-> "use_respond", code |-> NewCode, license |-> [ref |-> "live"]]
  IN IF r \in DOMAIN requests THEN requests[r] ELSE 0

\* C15: under every interleaving of /api/license/use requests for one code,
\* questions_used of its record (0 when the record is created) is the
\* number of requests that answered success plus the number that have
\* incremented and not answered yet; once no request is in flight it is
\* the number of successes.
C15_NoLostUpdates ==
  NewCode \in DOMAIN licenses =>
    licenses[NewCode].questions_used = useOk + OwedUseResponses

\* Two use requests were both checked before either incremented, and both
\* have answered success: the record of one question counts two.
C15_Witness ==
  /\ NewCode \in DOMAIN licenses
  /\ licenses[NewCode].questions_total = 1
  /\ useOk = 2
  /\ licenses[NewCode].questions_used = 2
  /\ requests = EmptyBag

\* The tiers the server knows
RecognizedTypes == {"BASIC", "PREMIUM"}

\* C16: license creation never overwrites a stored record (a record, once
\* stored, keeps its type, questions_total and created_at, and its
\* questions_used is not reset) and never stores a record whose type is not
\* a recognized tier.
C16_CreateNeverOverwrites ==
  [][/\ \A c \in DOMAIN licenses :
          /\ c \in DOMAIN licenses'
          /\ licenses'[c].type = licenses[c].type
          /\ licenses'[c].questions_total = licenses[c].questions_total
          /\ licenses'[c].created_at = licenses[c].created_at
          /\ licenses'[c].questions_used >= licenses[c].questions_used
     /\ \A c \in DOMAIN licenses' :
          licenses'[c].type \in RecognizedTypes]_vars

\* C22: under every interleaving of /api/license/use requests,
\* questions_used of a license never exceeds its questions_total.
C22_UsageWithinTotal ==
  \A c \in DOMAIN licenses :
    licenses[c].questions_used <= licenses[c].questions_total

\* An activation request for NewCode that has called db.activateLicense and
\* will answer success
ActivationGranted == [pc |-> "activate_respond", code |-> NewCode]

\* A request passes the activated_at test of the route and writes
\* activated_at
ActivationWriteStep ==
  CopiesIn(ActivationGranted, requests') > CopiesIn(ActivationGranted, requests)

\* The activation request that takes this step holds a record that
\* createLicense has replaced since the request fetched it
StaleHolderStep ==
  \E r \in DOMAIN requests :
    /\ r.pc = "activate_got"
    /\ r.license.ref = "stale"
    /\ CopiesIn(r, requests') < CopiesIn(r, requests)

\* An activation request leaves the route without having been granted
ActivationRejectStep ==
  /\ BagCardinality(requests') < BagCardinality(requests)
  /\ \E r \in DOMAIN requests :
       r.pc = "activate_got" /\ CopiesIn(r, requests') < CopiesIn(r, requests)

\* C23: under every interleaving of activation requests for a code, a
\* request is let through to db.activateLicense, and answers success,
\* only when activated_at of the license is not set, and a rejected request
\* leaves the records unchanged.  Hence activated_at of a record is
\* written at most once and at most one request reports success for it.
\* (Requests whose record createLicense replaced while they were suspended
\* are not activation-only interleavings and are left aside.)
C23_ActivationAtMostOnce ==
  [][/\ (ActivationWriteStep /\ ~StaleHolderStep)
          => licenses[NewCode].activated_at = Null
     /\ ActivationRejectStep => licenses' = licenses]_vars

\* One activation request has been granted while another request for the
\* same code, which fetched the same record, is still to test activated_at.
C23_Witness ==
  /\ CopiesIn(ActivationGranted, requests) = 1
  /\ CopiesIn([pc |-> "activate_got", code |-> NewCode,
               license |-> [ref |-> "live"]], requests) = 1
  /\ licenses[NewCode].activated_at # Null

\* A use request whose status check came out invalid takes its step
UseInvalidStep ==
  \E r \in DOMAIN requests :
    /\ r.pc = "use_checked"
    /\ ~r.status.valid
    /\ CopiesIn(r, requests') < CopiesIn(r, requests)

\* Use requests that have incremented and will answer success
UseGranted ==
  [pc |-> "use_respond", code |-> NewCode, license |-> [ref |-> "live"]]

\* C24: a license whose status is not ACTIVE is never evaluated valid,
\* whatever its remaining questions and its expiry; a use request whose
\* status check is invalid (license missing, not ACTIVE, expired or
\* exhausted) is answered with an error: it is not passed on to the
\* increment and leaves every record, questions_used and last_used_at
\* included, unchanged.
C24_InvalidLicenseIsRefused ==
  [][/\ \A c \in DOMAIN licenses' :
          licenses'[c].status # "ACTIVE"
            => ~checkLicenseStatus(licenses', c, now').valid
     /\ UseInvalidStep =>
          /\ licenses' = licenses
          /\ BagCardinality(requests') = BagCardinality(requests) - 1
          /\ CopiesIn(UseGranted, requests') = CopiesIn(UseGranted, requests)]_vars

\* A use request has been checked against a revoked license that has
\* questions left and has not expired.
C24_Witness ==
  /\ NewCode \in DOMAIN licenses
  /\ licenses[NewCode].status = "REVOKED"
  /\ licenses[NewCode].questions_used < licenses[NewCode].questions_total
  /\ getTime(licenses[NewCode].expires_at) >= now
  /\ \E r \in DOMAIN requests :
       /\ r.pc = "use_checked"
       /\ r.code = NewCode
       /\ r.status = [valid |-> FALSE, reason |-> "License status"]

====
